---- MODULE Spec2Model ----
(***************************************************************************)
(* A model of the gogw API gateway: the JWT verifier and its worker pool   *)
(* (package auth), the circuit-breaker transport, the stage chains and the *)
(* dispatcher (package gateway), and endpoint validation (package config). *)
(***************************************************************************)
EXTENDS Integers, Sequences, FiniteSets, TLC

(***************************************************************************)
(* Strings.  A Go string is modelled as the sequence of its words, the     *)
(* maximal runs between single spaces: "Bearer abc" is <<"Bearer","abc">>, *)
(* "abc" is <<"abc">>, and "" is <<"">>.                                   *)
(***************************************************************************)

\* strings.ToLower on one word
ToLower(word) ==
    CASE word = "Bearer" -> "bearer"
      [] word = "BEARER" -> "bearer"
      [] word = "Basic"  -> "basic"
      [] OTHER           -> word

\* strings.SplitN(s, " ", 2): the first word, and the rest when there is one
SplitN2(s) ==
    IF Len(s) >= 2 THEN <<<<s[1]>>, Tail(s)>> ELSE <<s>>

\* splitToken: [token, err]; err = "" stands for nil
splitToken(token) ==
    LET tokenParts == SplitN2(token) IN
    IF Len(tokenParts) = 2
    THEN IF ToLower(tokenParts[1][1]) = "bearer"
         THEN [token |-> tokenParts[2], err |-> ""]
         ELSE [token |-> <<"">>, err |-> "not a bearer token"]
    ELSE [token |-> token, err |-> ""]

\* The compact tokens that verify against the configured public key
\* (well-formed, signed by it, within their validity constraints).
SignedByKey == {"jwtgood", "jwtgood2"}

\* jwt.Parse with the key function of JWTAuthenticator.Authenticate
jwtParse(token) ==
    IF Len(token) = 1 /\ token[1] \in SignedByKey
    THEN [parsed |-> token[1], err |-> ""]
    ELSE [parsed |-> "nil", err |-> "token invalid"]

\* JWTAuthenticator.Authenticate: the AuthReturn pair (AuthResult, error)
AuthFail(msg) ==
    [AuthResult |-> [Success |-> FALSE, Artifact |-> "nil"], AuthError |-> msg]

Authenticate(creds) ==
    LET st == splitToken(creds) IN
    IF st.err # ""
    THEN AuthFail(st.err)
    ELSE LET p == jwtParse(st.token) IN
         IF p.err # ""
         THEN AuthFail(p.err)
         ELSE IF p.parsed = "nil"
              THEN AuthFail("authentication failed with a nil parsed token")
              ELSE [AuthResult |-> [Success |-> TRUE, Artifact |-> p.parsed],
                    AuthError |-> ""]

\* Authorization header values used as inputs
BearerGood   == <<"Bearer", "jwtgood">>
BearerGood2  == <<"bearer", "jwtgood2">>
BearerForged == <<"Bearer", "jwtforged">>
BasicXyz     == <<"Basic", "xyz">>
BareGood     == <<"jwtgood">>
EmptyCred    == <<"">>

(***************************************************************************)
(* The circuit breaker: config.CircuitBreaker, newCircuitBreaker, and the  *)
(* gobreaker.CircuitBreaker it builds.  Times are in milliseconds.         *)
(***************************************************************************)

NoCbConfig == [nil |-> TRUE]   \* Config.CircuitBreaker == nil
NoBreaker  == [nil |-> TRUE]   \* CbTransport.CircuitBreaker == nil
ZeroTime   == 0         \* the zero time.Time; the clock starts after it

\* defaults of Config.setCircuitBreakerDefaults
DefaultMaxHalfOpenRequests         == 1
DefaultClearFailureCountIntervalMs == 10000
DefaultHalfOpenAfterMs             == 5000
DefaultFailuresToOpen              == 10

\* Config.setCircuitBreakerDefaults on a non-nil section
setCircuitBreakerDefaults(c) ==
    [MaxHalfOpenRequests |->
        IF c.MaxHalfOpenRequests = 0 THEN DefaultMaxHalfOpenRequests
        ELSE c.MaxHalfOpenRequests,
     ClearFailureCountIntervalMs |->
        IF c.ClearFailureCountIntervalMs = 0 THEN DefaultClearFailureCountIntervalMs
        ELSE c.ClearFailureCountIntervalMs,
     HalfOpenAfterMs |->
        IF c.HalfOpenAfterMs = 0 THEN DefaultHalfOpenAfterMs ELSE c.HalfOpenAfterMs,
     FailuresToOpen |->
        IF c.FailuresToOpen = 0 THEN DefaultFailuresToOpen ELSE c.FailuresToOpen]

\* gobreaker's defaults for the Settings fields newCircuitBreaker may leave zero
GobreakerDefaultTimeoutMs  == 60000
\* newCircuitBreaker sets no ReadyToTrip, so the breaker trips by gobreaker's
\* default rule: more than this many consecutive failures.
DefaultTripAfterFailures   == 5

ZeroCounts ==
    [Requests |-> 0, TotalSuccesses |-> 0, TotalFailures |-> 0,
     ConsecutiveSuccesses |-> 0, ConsecutiveFailures |-> 0]

\* the ReadyToTrip rule in force for a breaker built by newCircuitBreaker
readyToTrip(b) == b.counts.ConsecutiveFailures > DefaultTripAfterFailures

\* CircuitBreaker.toNewGeneration(now)
toNewGeneration(b, t) ==
    [b EXCEPT !.generation = b.generation + 1,
              !.counts = ZeroCounts,
              !.expiry = CASE b.state = "closed" ->
                                IF b.interval = 0 THEN ZeroTime ELSE t + b.interval
                           [] b.state = "open" -> t + b.timeout
                           [] OTHER -> ZeroTime]

\* CircuitBreaker.setState(state, now)
setState(b, st, t) ==
    IF b.state = st THEN b ELSE toNewGeneration([b EXCEPT !.state = st], t)

\* newCircuitBreaker(name, cbConfig) at time t: nil for a nil config, else
\* gobreaker.NewCircuitBreaker with MaxRequests, Interval, Timeout from the
\* config.  cbConfig.FailuresToOpen is carried only to show it is not used.
newCircuitBreaker(cbConfig, t) ==
    IF cbConfig = NoCbConfig THEN NoBreaker
    ELSE toNewGeneration(
           [state |-> "closed", generation |-> 0, counts |-> ZeroCounts,
            expiry |-> ZeroTime,
            maxRequests |-> IF cbConfig.MaxHalfOpenRequests = 0 THEN 1
                            ELSE cbConfig.MaxHalfOpenRequests,
            interval |-> IF cbConfig.ClearFailureCountIntervalMs <= 0 THEN 0
                         ELSE cbConfig.ClearFailureCountIntervalMs,
            timeout |-> IF cbConfig.HalfOpenAfterMs <= 0 THEN GobreakerDefaultTimeoutMs
                        ELSE cbConfig.HalfOpenAfterMs,
            failuresToOpen |-> cbConfig.FailuresToOpen], t)

\* CircuitBreaker.currentState(now): the breaker after the lazy transitions
currentState(b, t) ==
    CASE b.state = "closed" ->
            IF b.expiry # ZeroTime /\ b.expiry < t THEN toNewGeneration(b, t) ELSE b
      [] b.state = "open" ->
            IF b.expiry < t THEN setState(b, "half-open", t) ELSE b
      [] OTHER -> b

\* CircuitBreaker.beforeRequest(): the breaker afterwards, the generation
\* handed to the request, and the error ("" for nil)
beforeRequestAdmitOneMore(b, t) ==
    LET c == currentState(b, t) IN
    IF c.state = "open"
    THEN [cb |-> c, generation |-> c.generation, err |-> "ErrOpenState"]
    ELSE IF c.state = "half-open" /\ c.counts.Requests > c.maxRequests
         THEN [cb |-> c, generation |-> c.generation, err |-> "ErrTooManyRequests"]
         ELSE [cb |-> [c EXCEPT !.counts.Requests = @ + 1],
               generation |-> c.generation, err |-> ""]

beforeRequestNoOpenCheck(b, t) ==
    LET c == currentState(b, t) IN
    IF c.state = "half-open" /\ c.counts.Requests >= c.maxRequests
    THEN [cb |-> c, generation |-> c.generation, err |-> "ErrTooManyRequests"]
    ELSE [cb |-> [c EXCEPT !.counts.Requests = @ + 1],
          generation |-> c.generation, err |-> ""]

beforeRequest(b, t) ==
    LET c == currentState(b, t) IN
    IF c.state = "open"
    THEN [cb |-> c, generation |-> c.generation, err |-> "ErrOpenState"]
    ELSE IF c.state = "half-open" /\ c.counts.Requests >= c.maxRequests
         THEN [cb |-> c, generation |-> c.generation, err |-> "ErrTooManyRequests"]
         ELSE [cb |-> [c EXCEPT !.counts.Requests = @ + 1],
               generation |-> c.generation, err |-> ""]

\* a success that leaves the consecutive failures as they are
countsOnSuccessKeepsFailures(n) ==
    [n EXCEPT !.TotalSuccesses = @ + 1, !.ConsecutiveSuccesses = @ + 1]

\* Counts.onSuccess / Counts.onFailure
countsOnSuccess(n) ==
    [n EXCEPT !.TotalSuccesses = @ + 1, !.ConsecutiveSuccesses = @ + 1,
              !.ConsecutiveFailures = 0]

countsOnFailure(n) ==
    [n EXCEPT !.TotalFailures = @ + 1, !.ConsecutiveFailures = @ + 1,
              !.ConsecutiveSuccesses = 0]

\* CircuitBreaker.onSuccess(state, now)
onSuccessCloseAtOnce(b, t) ==
    CASE b.state = "closed" -> [b EXCEPT !.counts = countsOnSuccess(@)]
      [] b.state = "half-open" -> setState(b, "closed", t)
      [] OTHER -> b

onSuccess(b, t) ==
    CASE b.state = "closed" -> [b EXCEPT !.counts = countsOnSuccess(@)]
      [] b.state = "half-open" ->
            LET c == [b EXCEPT !.counts = countsOnSuccess(@)] IN
            IF c.counts.ConsecutiveSuccesses >= c.maxRequests
            THEN setState(c, "closed", t) ELSE c
      [] OTHER -> b

\* CircuitBreaker.onFailure(state, now)
onFailure(b, t) ==
    CASE b.state = "closed" ->
            LET c == [b EXCEPT !.counts = countsOnFailure(@)] IN
            IF readyToTrip(c) THEN setState(c, "open", t) ELSE c
      [] b.state = "half-open" -> setState(b, "open", t)
      [] OTHER -> b

\* CircuitBreaker.afterRequest(before, success)
afterRequest(b, before, success, t) ==
    LET c == currentState(b, t) IN
    IF c.generation # before THEN c
    ELSE IF success THEN onSuccess(c, t) ELSE onFailure(c, t)

(***************************************************************************)
(* Configuration: endpoints and their validation                           *)
(***************************************************************************)

Ep(name, key, url, authenticate, shared) ==
    [Name |-> name, Key |-> key, URL |-> url, Authenticate |-> authenticate,
     SharedTransport |-> shared]

\* Endpoint.valid: [ok, err]
valid(ep) ==
    IF ep.Name = "" THEN [ok |-> FALSE, err |-> "missing name for endpoint"]
    ELSE IF ep.Key = "" THEN [ok |-> FALSE, err |-> "missing key for endpoint"]
    ELSE IF ep.URL = "" THEN [ok |-> FALSE, err |-> "missing url for endpoint"]
    ELSE [ok |-> TRUE, err |-> ""]

\* the loop of Config.validateEndpoints from endpoint i on, with the names
\* and keys seen so far
RECURSIVE validateFrom(_, _, _, _)
validateFrom(eps, i, epNameSet, epKeySet) ==
    IF i > Len(eps) THEN [ok |-> TRUE, err |-> "", at |-> 0]
    ELSE LET ep == eps[i] IN
         IF ep.Name \in epNameSet
         THEN [ok |-> FALSE, err |-> "endpoint name is not unique", at |-> i]
         ELSE IF ep.Key \in epKeySet
         THEN [ok |-> FALSE, err |-> "endpoint key is not unique", at |-> i]
         ELSE IF ep.SharedTransport # "" /\ ep.SharedTransport = ep.Name
         THEN [ok |-> FALSE, err |-> "cannot share a transport with itself", at |-> i]
         ELSE IF ~valid(ep).ok
         THEN [ok |-> FALSE, err |-> valid(ep).err, at |-> i]
         ELSE validateFrom(eps, i + 1, epNameSet \cup {ep.Name}, epKeySet \cup {ep.Key})

\* a validation that accepts every list
validateEndpointsAcceptsAll(eps) == [ok |-> TRUE, err |-> "", at |-> 0]

\* Config.validateEndpoints
validateEndpoints(eps) == validateFrom(eps, 1, {}, {})

(***************************************************************************)
(* Request paths.  A path is the sequence of its pieces: "/" for a slash,  *)
(* any other string for a run of characters without a slash.               *)
(***************************************************************************)

\* strings.Split(path, "/") from piece i on, cur being the segment under way
RECURSIVE splitFrom(_, _, _)
splitFrom(path, i, cur) ==
    IF i > Len(path) THEN <<cur>>
    ELSE IF path[i] = "/" THEN <<cur>> \o splitFrom(path, i + 1, "")
    ELSE splitFrom(path, i + 1, path[i])

\* strings.Split(r.URL.Path, "/"): the segments, "" for an empty one
Split(path) == splitFrom(path, 1, "")

(***************************************************************************)
(* Responses                                                               *)
(***************************************************************************)

\* a fresh http.ResponseWriter: no status written, empty body
NewWriter == [status |-> 0, body |-> ""]

\* w.WriteHeader(code): the first status written stands
WriteHeader(w, code) == IF w.status = 0 THEN [w EXCEPT !.status = code] ELSE w

\* w.Write(text): writes 200 first when no status was written
Write(w, text) ==
    [status |-> IF w.status = 0 THEN 200 ELSE w.status, body |-> text]

\* httperr
UnAuthorized == [Code |-> 401, Message |-> "unauthorized"]
NotFound     == [Code |-> 404, Message |-> "not found"]
NoHttpErr    == [Code |-> 0, Message |-> "nil"]

\* fmt.Sprintf("%v: %v", e.Message, e.Code)
Sprintf(e) ==
    CASE e = NotFound     -> "not found: 404"
      [] e = UnAuthorized -> "unauthorized: 401"
      [] OTHER            -> "error"

\* Dispatcher.sendError
sendError(w, e) == Write(WriteHeader(w, e.Code), Sprintf(e))

\* the AuthHandler built by newJWTAuthHandler, on the request's Authorization
\* header values (<<>> when the header is absent): [ok, httpErr]
authHandlerAlwaysOk(hdr) == [ok |-> TRUE, httpErr |-> NoHttpErr]

authHandlerForbidsMissing(hdr) ==
    IF hdr = <<>> THEN [ok |-> FALSE, httpErr |-> NoHttpErr]
    ELSE LET ret == Authenticate(hdr[1]) IN
         IF ~ret.AuthResult.Success \/ ret.AuthError # ""
         THEN [ok |-> FALSE, httpErr |-> NoHttpErr]
         ELSE [ok |-> TRUE, httpErr |-> NoHttpErr]

authHandler(hdr) ==
    IF hdr = <<>> THEN [ok |-> FALSE, httpErr |-> UnAuthorized]
    ELSE LET ret == Authenticate(hdr[1]) IN
         IF ~ret.AuthResult.Success \/ ret.AuthError # ""
         THEN [ok |-> FALSE, httpErr |-> NoHttpErr]
         ELSE [ok |-> TRUE, httpErr |-> NoHttpErr]

\* the auth ExecHandler after d.authHandler returned (false, httpErr): the
\* status it writes, then the body it writes
failHeader(w, httpErr) ==
    IF httpErr # NoHttpErr
    THEN IF httpErr.Code # 0 THEN WriteHeader(w, httpErr.Code) ELSE w
    ELSE WriteHeader(w, 403)

failBody(w, httpErr) ==
    IF httpErr # NoHttpErr
    THEN IF httpErr.Message # "" THEN Write(w, httpErr.Message) ELSE w
    ELSE Write(w, "forbidden")

\* net/http when the handler returns: a response without status gets 200
finishResponse(w) == WriteHeader(w, 200)

\* the ExecHandler of the authentication stage: the writer afterwards and
\* the value returned
authExec(w, hdr) ==
    LET a == authHandler(hdr) IN
    IF ~a.ok
    THEN [w |-> failBody(failHeader(w, a.httpErr), a.httpErr), ret |-> FALSE]
    ELSE [w |-> w, ret |-> TRUE]

\* httputil.ReverseProxy on what the transport returned: 502 on an error,
\* else the backend's status and body
proxyWrite(w, out) ==
    IF out.err # "" THEN WriteHeader(w, 502)
    ELSE Write(WriteHeader(w, out.resp), "backend body")

(***************************************************************************)
(* Bounds                                                                  *)
(***************************************************************************)
MaxWorkers   == 1      \* pool sizes 1..MaxWorkers

\* one caller more than the largest pool, so that callers outnumber workers
NumCallers == MaxWorkers + 1
WorkerIds  == 1..MaxWorkers
CallerIds  == 1..NumCallers
PoolCreds  == {BearerGood, BasicXyz, BareGood}

MaxInFlight == 2       \* concurrent RoundTrip calls through one Transport Handle
MaxCalls    == 9       \* RoundTrip calls started in one run
MaxTime     == 4       \* the clock stops here

CallIds == 1..MaxInFlight

\* circuit-breaker sections of the configuration, as written in the YAML
\* (0 for an omitted field), and the absent section
CbConfigInputs ==
    { [MaxHalfOpenRequests |-> 0, ClearFailureCountIntervalMs |-> 2,
       HalfOpenAfterMs |-> 1, FailuresToOpen |-> 3],
      [MaxHalfOpenRequests |-> 2, ClearFailureCountIntervalMs |-> 2,
       HalfOpenAfterMs |-> 1, FailuresToOpen |-> 0] }

\* what the underlying http.Transport can return: a response with a status
\* (resp = 0 stands for a nil response) and an error ("" for nil)
BackendOutcomes ==
    { [resp |-> 200, err |-> ""], [resp |-> 500, err |-> ""],
      [resp |-> 0, err |-> "connection refused"] }

NoOut  == [resp |-> 0, err |-> "unset"]
IdleRt == [pc |-> "idle", generation |-> 0, seen |-> "none"]
NoRoundTrip == [seen |-> "none", reached |-> FALSE, out |-> NoOut]

\* a URL that url.Parse rejects
BadURL == "http://[::1"
UrlParses(u) == u # BadURL

\* endpoint lists of the configuration
EndpointLists ==
    { \* name differs from key; one open and one authenticated endpoint
      << Ep("svc1", "service1", "http://localhost:8181", FALSE, ""),
         Ep("svc2", "service2", "http://localhost:8282", TRUE, "") >>,
      \* the first endpoint shares the transport of the second
      << Ep("service1", "service1", "http://localhost:8181", FALSE, "service2"),
         Ep("service2", "service2", "http://localhost:8282", TRUE, "") >>,
      \* the second endpoint shares the transport of the first
      << Ep("service1", "service1", "http://localhost:8181", TRUE, ""),
         Ep("service2", "service2", "http://localhost:8282", FALSE, "service1") >>,
      \* a shares the transport of b, which shares the transport of c
      << Ep("service1", "service1", "http://localhost:8181", FALSE, "service2"),
         Ep("service2", "service2", "http://localhost:8282", FALSE, "service3"),
         Ep("service3", "service3", "http://localhost:8383", FALSE, "") >>,
      \* a duplicate key
      << Ep("service1", "service1", "http://localhost:8181", FALSE, ""),
         Ep("service2", "service1", "http://localhost:8282", FALSE, "") >>,
      \* a URL that url.Parse refuses
      << Ep("service1", "service1", BadURL, FALSE, "") >>,
      \* a duplicate name
      << Ep("service1", "service1", "http://localhost:8181", FALSE, ""),
         Ep("service1", "service2", "http://localhost:8282", FALSE, "") >>,
      \* an endpoint that names itself as its shared transport
      << Ep("service1", "service1", "http://localhost:8181", FALSE, ""),
         Ep("service2", "service2", "http://localhost:8282", FALSE, "service2") >>,
      \* an endpoint without url
      << Ep("service1", "service1", "", FALSE, "") >>,
      \* no endpoints
      << >> }

\* gateway.pemFile of the configuration: a PEM asset holding an RSA public
\* key, not set, or an asset that is no RSA public key
GoodPem  == "keys/public.pem"
BadPem   == "keys/garbage.pem"
PemFiles == {GoodPem, "", BadPem}

\* the process is running; and the ways it ends
\* (os.Exit code, the error logged, the endpoint it is about, and whether
\* the server had been started)
Running == [exited |-> FALSE, code |-> 0, err |-> "", at |-> 0, served |-> FALSE]
Exit(code, err, at) ==
    [exited |-> TRUE, code |-> code, err |-> err, at |-> at, served |-> FALSE]

\* request paths (r.URL.Path) and Authorization header values (absent: <<>>)
Paths ==
    { <<"/", "service1", "/", "x">>, <<"/", "service2", "/", "x">>,
      <<"/", "svc2", "/", "x">>, <<"/", "nokey">>, <<"/">>, <<>>,
      <<"/", "/", "service1", "/", "x">> }

AuthHeaders == { <<>>, <<BearerGood>>, <<BasicXyz>>, <<BearerForged>>, <<BareGood>> }

\* requests the gateway proxies in one behaviour
MaxDispatches == 7

\* the circuit-breaker section of the gateway's configuration file
GwCbInput ==
    [MaxHalfOpenRequests |-> 0, ClearFailureCountIntervalMs |-> 2,
     HalfOpenAfterMs |-> 1, FailuresToOpen |-> 3]

\* the circuit-breaker sections: present, or absent (a nil *CircuitBreaker)
GwCbInputs == {GwCbInput, NoCbConfig}

\* what a function of type auth.AuthHandler can return: (true, nil), or
\* false with nil or with an httperr.Error of any code and message
HttpErrCodes    == {0, 400, 401, 403, 404, 503}
HttpErrMessages == {"", "unauthorized", "forbidden", "overloaded"}
AuthHandlerReturns ==
    {[ok |-> TRUE, httpErr |-> NoHttpErr], [ok |-> FALSE, httpErr |-> NoHttpErr]}
    \cup {[ok |-> FALSE, httpErr |-> [Code |-> c, Message |-> m]] :
             c \in HttpErrCodes, m \in HttpErrMessages}

\* d.authHandler has not been called for the request
NoAuthCall == [ok |-> FALSE, httpErr |-> [Code |-> 0, Message |-> "not called"]]

EmptyMap == [x \in {} |-> 0]
IdleReq  == [pc |-> "idle", path |-> <<>>, hdr |-> <<>>, route |-> "", sh |-> <<>>,
             generation |-> 0, w |-> NewWriter, trace |-> <<>>, backend |-> FALSE,
             out |-> NoOut, ah |-> NoAuthCall]

NoJob == [Payload |-> <<"">>, RespChan |-> 0]
NoRet == [AuthResult |-> [Success |-> FALSE, Artifact |-> "nil"], AuthError |-> "unset"]

VARIABLES
    \* ---- PooledJWTAuthenticator ----
    numWorkers,     \* the numWorkers argument of NewPooledJWTAuthenticator
    workerPool,     \* chan chan Job, capacity numWorkers: queued inJobChannels, by worker
    wpc,            \* each worker goroutine's position in Worker.Start
    wjob,           \* the Job a worker holds
    wret,           \* the AuthReturn a worker is about to send
    verifying,      \* invocations of JWTAuthenticator.Authenticate in progress
    cpc,            \* each caller's position in PooledJWTAuthenticator.Authenticate
    ctoken,         \* the caller's token argument
    inJobChan,      \* the caller's inJobChan (owner of the channel it received)
    authRetChan,    \* the caller's response channel: "none", "open", "closed"
    authRet,        \* the AuthReturn the caller received
    \* ---- one CbTransport and the RoundTrip calls through it ----
    cbConfig,       \* the *config.CircuitBreaker given to newCbTransport
    cb,             \* CbTransport.CircuitBreaker
    now,            \* time.Now()
    rt,             \* each RoundTrip call: position, generation, breaker state seen
    lastRt,         \* the RoundTrip that returned last: state seen, backend reached, result
    ncalls,         \* RoundTrip calls started so far
    openedAt,       \* when the breaker last entered Open (ZeroTime when not Open)
    streak,         \* backend failures completed in a row through the handle
    trials,         \* calls admitted since the breaker last entered HalfOpen
    \* ---- the Dispatcher ----
    endpoints,      \* Config.Endpoints
    phase,          \* "parse", "build", "serving", "exit"
    bi,             \* configureRoutes: index of the endpoint compiled next
    buildRoutes,    \* configureRoutes: its local routes map
    routes,         \* Dispatcher.routes
    transports,     \* Dispatcher.transports: transport name -> handle
    handles,        \* the CbTransports created, in order: name given, breaker
    req,            \* the request being served
    pemFile,        \* Config.Gateway.PEMFile
    exit            \* how the process ended, Running while it has not

poolVars == <<numWorkers, workerPool, wpc, wjob, wret, verifying,
              cpc, ctoken, inJobChan, authRetChan, authRet>>

cbVars == <<cbConfig, cb, now, rt, lastRt, ncalls, openedAt, streak, trials>>

gwVars == <<endpoints, phase, bi, buildRoutes, routes, transports, handles, req,
            pemFile, exit>>

vars == <<poolVars, cbVars, gwVars>>

(***************************************************************************)
(* The worker pool                                                         *)
(***************************************************************************)

\* NewPooledJWTAuthenticator(numWorkers, key): an empty registration queue
\* and numWorkers started worker goroutines, each about to register.
InitPool ==
    /\ numWorkers \in 1..MaxWorkers
    /\ workerPool = <<>>
    /\ wpc = [w \in WorkerIds |-> IF w <= numWorkers THEN "register" ELSE "off"]
    /\ wjob = [w \in WorkerIds |-> NoJob]
    /\ wret = [w \in WorkerIds |-> NoRet]
    /\ verifying = {}
    /\ cpc = [c \in CallerIds |-> "idle"]
    /\ ctoken = [c \in CallerIds |-> <<"">>]
    /\ inJobChan = [c \in CallerIds |-> 0]
    /\ authRetChan = [c \in CallerIds |-> "none"]
    /\ authRet = [c \in CallerIds |-> NoRet]

\* a worker that publishes its job channel twice
WorkerRegisterTwice(w) ==
    /\ wpc[w] = "register"
    /\ Len(workerPool) < numWorkers
    /\ workerPool' = Append(Append(workerPool, w), w)
    /\ wpc' = [wpc EXCEPT ![w] = "select"]
    /\ UNCHANGED <<numWorkers, wjob, wret, verifying, cpc, ctoken, inJobChan,
                   authRetChan, authRet>>
    /\ UNCHANGED <<cbVars, gwVars>>

\* a registration queue made one slot too small
WorkerRegisterSmallQueue(w) ==
    /\ wpc[w] = "register"
    /\ Len(workerPool) < numWorkers - 1
    /\ workerPool' = Append(workerPool, w)
    /\ wpc' = [wpc EXCEPT ![w] = "select"]
    /\ UNCHANGED <<numWorkers, wjob, wret, verifying, cpc, ctoken, inJobChan,
                   authRetChan, authRet>>
    /\ UNCHANGED <<cbVars, gwVars>>

\* Worker.Start: w.workerRegPool <- w.inJobChannel (blocks while the queue is full)
WorkerRegister(w) ==
    /\ wpc[w] = "register"
    /\ Len(workerPool) < numWorkers
    /\ workerPool' = Append(workerPool, w)
    /\ wpc' = [wpc EXCEPT ![w] = "select"]
    /\ UNCHANGED <<numWorkers, wjob, wret, verifying, cpc, ctoken, inJobChan,
                   authRetChan, authRet>>
    /\ UNCHANGED <<cbVars, gwVars>>

\* A request-handling goroutine enters PooledJWTAuthenticator.Authenticate(token)
CallAuthenticate(c) ==
    /\ cpc[c] = "idle"
    /\ \E t \in PoolCreds : ctoken' = [ctoken EXCEPT ![c] = t]
    /\ cpc' = [cpc EXCEPT ![c] = "getWorker"]
    /\ UNCHANGED <<numWorkers, workerPool, wpc, wjob, wret, verifying, inJobChan,
                   authRetChan, authRet>>
    /\ UNCHANGED <<cbVars, gwVars>>

\* a caller that reads the head of the registration queue and leaves it there
GetWorkerPeek(c) ==
    /\ cpc[c] = "getWorker"
    /\ workerPool # <<>>
    /\ inJobChan' = [inJobChan EXCEPT ![c] = Head(workerPool)]
    /\ authRetChan' = [authRetChan EXCEPT ![c] = "open"]
    /\ cpc' = [cpc EXCEPT ![c] = "sendJob"]
    /\ UNCHANGED <<numWorkers, workerPool, wpc, wjob, wret, verifying, ctoken, authRet>>
    /\ UNCHANGED <<cbVars, gwVars>>

\* inJobChan := <-authenticator.workerPool ; authRetChan := make(chan AuthReturn)
GetWorker(c) ==
    /\ cpc[c] = "getWorker"
    /\ workerPool # <<>>
    /\ inJobChan' = [inJobChan EXCEPT ![c] = Head(workerPool)]
    /\ workerPool' = Tail(workerPool)
    /\ authRetChan' = [authRetChan EXCEPT ![c] = "open"]
    /\ cpc' = [cpc EXCEPT ![c] = "sendJob"]
    /\ UNCHANGED <<numWorkers, wpc, wjob, wret, verifying, ctoken, authRet>>
    /\ UNCHANGED <<cbVars, gwVars>>

\* The worker's side of the hand-off: case job := <-w.inJobChannel, then the
\* call w.authenticator.Authenticate(job.Payload) begins.
WorkerRecvJobAsync(w, job) ==
    /\ wpc' = [wpc EXCEPT ![w] = "register"]
    /\ wjob' = [wjob EXCEPT ![w] = job]
    /\ verifying' = verifying \cup {[worker |-> w, job |-> job]}

WorkerRecvJob(w, job) ==
    /\ wpc' = [wpc EXCEPT ![w] = "verify"]
    /\ wjob' = [wjob EXCEPT ![w] = job]
    /\ verifying' = verifying \cup {[worker |-> w, job |-> job]}

\* inJobChan <- Job{token, authRetChan}: an unbuffered send, which completes
\* together with the receive of the worker waiting in its select.
SendJob(c) ==
    /\ cpc[c] = "sendJob"
    /\ wpc[inJobChan[c]] = "select"
    /\ WorkerRecvJob(inJobChan[c], [Payload |-> ctoken[c], RespChan |-> c])
    /\ cpc' = [cpc EXCEPT ![c] = "recvResp"]
    /\ UNCHANGED <<numWorkers, workerPool, wret, ctoken, inJobChan, authRetChan, authRet>>
    /\ UNCHANGED <<cbVars, gwVars>>

\* res, err := w.authenticator.Authenticate(job.Payload) returns
WorkerVerified(w) ==
    /\ wpc[w] = "verify"
    /\ wret' = [wret EXCEPT ![w] = Authenticate(wjob[w].Payload)]
    /\ verifying' = verifying \ {[worker |-> w, job |-> wjob[w]]}
    /\ wpc' = [wpc EXCEPT ![w] = "respond"]
    /\ UNCHANGED <<numWorkers, workerPool, wjob, cpc, ctoken, inJobChan,
                   authRetChan, authRet>>
    /\ UNCHANGED <<cbVars, gwVars>>

\* a worker that stays at its send after the caller has read the response
RespondTwice(w) ==
    LET c == wjob[w].RespChan IN
    /\ wpc[w] = "respond"
    /\ c \in CallerIds
    /\ cpc[c] = "recvResp"
    /\ authRetChan[c] = "open"
    /\ authRet' = [authRet EXCEPT ![c] = wret[w]]
    /\ cpc' = [cpc EXCEPT ![c] = "close"]
    /\ UNCHANGED <<numWorkers, workerPool, wpc, wjob, wret, verifying, ctoken,
                   inJobChan, authRetChan>>
    /\ UNCHANGED <<cbVars, gwVars>>

\* job.RespChan <- AuthReturn{res, err} meets authRet := <-authRetChan;
\* the worker loops back to register.
RespondAndExit(w) ==
    LET c == wjob[w].RespChan IN
    /\ wpc[w] = "respond"
    /\ c \in CallerIds
    /\ cpc[c] = "recvResp"
    /\ authRetChan[c] = "open"
    /\ authRet' = [authRet EXCEPT ![c] = wret[w]]
    /\ cpc' = [cpc EXCEPT ![c] = "close"]
    /\ wpc' = [wpc EXCEPT ![w] = "off"]
    /\ wjob' = [wjob EXCEPT ![w] = NoJob]
    /\ wret' = [wret EXCEPT ![w] = NoRet]
    /\ UNCHANGED <<numWorkers, workerPool, verifying, ctoken, inJobChan, authRetChan>>
    /\ UNCHANGED <<cbVars, gwVars>>

Respond(w) ==
    LET c == wjob[w].RespChan IN
    /\ wpc[w] = "respond"
    /\ c \in CallerIds
    /\ cpc[c] = "recvResp"
    /\ authRetChan[c] = "open"
    /\ authRet' = [authRet EXCEPT ![c] = wret[w]]
    /\ cpc' = [cpc EXCEPT ![c] = "close"]
    /\ wpc' = [wpc EXCEPT ![w] = "register"]
    /\ wjob' = [wjob EXCEPT ![w] = NoJob]
    /\ wret' = [wret EXCEPT ![w] = NoRet]
    /\ UNCHANGED <<numWorkers, workerPool, verifying, ctoken, inJobChan, authRetChan>>
    /\ UNCHANGED <<cbVars, gwVars>>

\* close(authRetChan); return authRet.AuthResult, authRet.AuthError
CloseAndReturn(c) ==
    /\ cpc[c] = "close"
    /\ authRetChan' = [authRetChan EXCEPT ![c] = "closed"]
    /\ cpc' = [cpc EXCEPT ![c] = "returned"]
    /\ inJobChan' = [inJobChan EXCEPT ![c] = 0]
    /\ UNCHANGED <<numWorkers, workerPool, wpc, wjob, wret, verifying, ctoken, authRet>>
    /\ UNCHANGED <<cbVars, gwVars>>

\* no CbTransport in use
CbOff ==
    /\ cbConfig = NoCbConfig
    /\ cb = NoBreaker
    /\ now = ZeroTime + 1
    /\ rt = [r \in CallIds |-> IdleRt]
    /\ lastRt = NoRoundTrip
    /\ ncalls = 0
    /\ openedAt = ZeroTime
    /\ streak = 0
    /\ trials = 0

PoolStep ==
    \/ \E w \in WorkerIds : WorkerRegister(w)
    \/ \E c \in CallerIds : CallAuthenticate(c)
    \/ \E c \in CallerIds : GetWorker(c)
    \/ \E c \in CallerIds : SendJob(c)
    \/ \E w \in WorkerIds : WorkerVerified(w)
    \/ \E w \in WorkerIds : Respond(w)
    \/ \E c \in CallerIds : CloseAndReturn(c)

NextPool == PoolStep

\* no Dispatcher in use
GwOff ==
    /\ endpoints = <<>>
    /\ phase = "off"
    /\ bi = 0
    /\ buildRoutes = EmptyMap
    /\ routes = EmptyMap
    /\ transports = EmptyMap
    /\ handles = <<>>
    /\ req = IdleReq
    /\ pemFile = ""
    /\ exit = Running

\* the pool alone
InitPoolOnly == InitPool /\ CbOff /\ GwOff

SpecPool == InitPoolOnly /\ [][NextPool]_vars

\* The Go scheduler keeps running some runnable goroutine: the pool never
\* stops while a worker or a caller can take a step.
PoolFairness == WF_vars(NextPool)

SpecPoolFair == SpecPool /\ PoolFairness

(***************************************************************************)
(* One CbTransport under concurrent RoundTrip calls                        *)
(***************************************************************************)

\* no PooledJWTAuthenticator in use
PoolOff ==
    /\ numWorkers = 0
    /\ workerPool = <<>>
    /\ wpc = [w \in WorkerIds |-> "off"]
    /\ wjob = [w \in WorkerIds |-> NoJob]
    /\ wret = [w \in WorkerIds |-> NoRet]
    /\ verifying = {}
    /\ cpc = [c \in CallerIds |-> "idle"]
    /\ ctoken = [c \in CallerIds |-> <<"">>]
    /\ inJobChan = [c \in CallerIds |-> 0]
    /\ authRetChan = [c \in CallerIds |-> "none"]
    /\ authRet = [c \in CallerIds |-> NoRet]

\* newCbTransport(name, proxyConfig, cbConfig): cbConfig is nil, or a section
\* that went through Config.setCircuitBreakerDefaults
InitCb ==
    /\ cbConfig \in {NoCbConfig} \cup {setCircuitBreakerDefaults(c) : c \in CbConfigInputs}
    /\ now = ZeroTime + 1
    /\ cb = newCircuitBreaker(cbConfig, now)
    /\ rt = [r \in CallIds |-> IdleRt]
    /\ lastRt = NoRoundTrip
    /\ ncalls = 0
    /\ openedAt = ZeroTime
    /\ streak = 0
    /\ trials = 0

\* when the breaker b2, reached from b at time t, entered Open
OpenedAtAfter(b, b2, t) ==
    IF b2.state # "open" THEN ZeroTime
    ELSE IF b.state = "open" /\ b.generation = b2.generation THEN openedAt ELSE t

\* calls admitted in the HalfOpen period of b2, reached from b
TrialsAfter(b, b2, admitted) ==
    IF b2.state # "half-open" THEN 0
    ELSE (IF b.state = "half-open" /\ b.generation = b2.generation THEN trials ELSE 0)
         + (IF admitted THEN 1 ELSE 0)

\* CbTransport.RoundTrip up to the call of the underlying transport: with no
\* breaker the transport is called directly; with one, Execute runs
\* beforeRequest and returns its error without running the closure.
RoundTripBegin(r) ==
    /\ rt[r].pc = "idle"
    /\ ncalls < MaxCalls
    /\ ncalls' = ncalls + 1
    /\ IF cb = NoBreaker
       THEN /\ rt' = [rt EXCEPT ![r] = [pc |-> "backend", generation |-> 0,
                                        seen |-> "none"]]
            /\ UNCHANGED <<cb, openedAt, trials, lastRt>>
       ELSE LET br == beforeRequest(cb, now) IN
            /\ cb' = br.cb
            /\ openedAt' = OpenedAtAfter(cb, br.cb, now)
            /\ trials' = TrialsAfter(cb, br.cb, br.err = "")
            /\ IF br.err = ""
               THEN /\ rt' = [rt EXCEPT ![r] = [pc |-> "backend",
                                                generation |-> br.generation,
                                                seen |-> br.cb.state]]
                    /\ UNCHANGED lastRt
               ELSE /\ lastRt' = [seen |-> br.cb.state, reached |-> FALSE,
                                  out |-> [resp |-> 0, err |-> br.err]]
                    /\ UNCHANGED rt
    /\ UNCHANGED <<cbConfig, now, streak>>
    /\ UNCHANGED <<poolVars, gwVars>>

\* the closure passed to Execute: a 5xx response becomes (nil, error)
cbClosure(o) ==
    IF o.resp # 0 /\ o.resp >= 500 /\ o.resp < 600
    THEN [resp |-> 0, err |-> "500 error for service endpoint"]
    ELSE o

\* the rest of CbTransport.RoundTrip: the underlying transport returns o, the
\* breaker records the outcome, and RoundTrip returns
RoundTripEnd(r) ==
    /\ rt[r].pc = "backend"
    /\ \E o \in BackendOutcomes :
         IF cb = NoBreaker
         THEN /\ lastRt' = [seen |-> "none", reached |-> TRUE, out |-> o]
              /\ streak' = IF o.err # "" \/ (o.resp >= 500 /\ o.resp < 600)
                           THEN streak + 1 ELSE 0
              /\ UNCHANGED <<cb, openedAt, trials>>
         ELSE LET res == cbClosure(o)
                  b2  == afterRequest(cb, rt[r].generation, res.err = "", now)
              IN /\ cb' = b2
                 /\ openedAt' = OpenedAtAfter(cb, b2, now)
                 /\ trials' = TrialsAfter(cb, b2, FALSE)
                 /\ streak' = IF res.err # "" THEN streak + 1 ELSE 0
                 /\ lastRt' = [seen |-> rt[r].seen, reached |-> TRUE,
                               out |-> res]
    /\ rt' = [rt EXCEPT ![r] = IdleRt]
    /\ UNCHANGED <<cbConfig, now, ncalls>>
    /\ UNCHANGED <<poolVars, gwVars>>

\* time passes
Tick ==
    /\ now < MaxTime
    /\ now' = now + 1
    /\ UNCHANGED <<cbConfig, cb, rt, lastRt, ncalls, openedAt, streak, trials>>
    /\ UNCHANGED <<poolVars, gwVars>>

CbStep ==
    \/ \E r \in CallIds : RoundTripBegin(r)
    \/ \E r \in CallIds : RoundTripEnd(r)
    \/ Tick

NextCb == CbStep

\* the transport alone
InitCbOnly == InitCb /\ PoolOff /\ GwOff

SpecCb == InitCbOnly /\ [][NextCb]_vars

(***************************************************************************)
(* The Dispatcher: configuration loading, route compilation, and requests  *)
(* served one after another.  Concurrent requests meet only in the worker  *)
(* pool and in the breaker of a Transport Handle, which SpecPool and       *)
(* SpecCb cover; the clock does not advance here.                          *)
(***************************************************************************)

\* the transport name newProxyStageHandler resolves for an endpoint
transNameOf(ep) == IF ep.SharedTransport # "" THEN ep.SharedTransport ELSE ep.Name

\* the key configureRoutes stores an endpoint's Route under
routeKeyOf(ep) == ep.Name

\* main.initConfig has read the YAML: endpoints and circuit-breaker section
InitGw ==
    /\ endpoints \in EndpointLists
    /\ cbConfig \in GwCbInputs
    /\ pemFile \in PemFiles
    /\ exit = Running
    /\ phase = "parse"
    /\ bi = 1
    /\ buildRoutes = EmptyMap
    /\ routes = EmptyMap
    /\ transports = EmptyMap
    /\ handles = <<>>
    /\ req = IdleReq
    /\ now = ZeroTime + 1
    /\ ncalls = 0
    /\ cb = NoBreaker
    /\ rt = [r \in CallIds |-> IdleRt]
    /\ lastRt = NoRoundTrip
    /\ openedAt = ZeroTime
    /\ streak = 0
    /\ trials = 0

\* the exit status of a Go process that ends in an unrecovered panic
PanicExitCode == 2

\* config.Parse called by main.initConfig: validateEndpoints, then the
\* defaults.  An error makes initConfig call os.Exit(1); without a
\* circuit-breaker section setCircuitBreakerDefaults dereferences the nil
\* config.CircuitBreaker and the process ends in a panic.
Parse ==
    /\ phase = "parse"
    /\ LET v == validateEndpoints(endpoints) IN
       IF ~v.ok
       THEN /\ phase' = "exit"
            /\ exit' = Exit(1, v.err, v.at)
            /\ UNCHANGED cbConfig
       ELSE IF cbConfig = NoCbConfig
       THEN /\ phase' = "exit"
            /\ exit' = Exit(PanicExitCode, "nil pointer dereference", 0)
            /\ UNCHANGED cbConfig
       ELSE /\ phase' = "run"
            /\ cbConfig' = setCircuitBreakerDefaults(cbConfig)
            /\ UNCHANGED exit
    /\ UNCHANGED <<endpoints, pemFile, bi, buildRoutes, routes, transports, handles, req>>
    /\ UNCHANGED <<cb, now, rt, lastRt, ncalls, openedAt, streak, trials>>
    /\ UNCHANGED poolVars

\* gateway.newRSAPublicKey: the error it returns, "" for nil
newRSAPublicKey(PEMAssetPath) ==
    IF PEMAssetPath = "" THEN "no pemfile set on config gateway"
    ELSE IF PEMAssetPath = BadPem THEN "invalid key: not a PEM encoded RSA public key"
    ELSE ""

\* main.runServer up to DispatcherBuilder.Build: no endpoints, or an error
\* of NewServer (the public key), makes it call os.Exit(1)
RunServer ==
    /\ phase = "run"
    /\ IF Len(endpoints) = 0
       THEN /\ phase' = "exit"
            /\ exit' = Exit(1, "failed to find endpoints in config", 0)
       ELSE IF newRSAPublicKey(pemFile) # ""
       THEN /\ phase' = "exit"
            /\ exit' = Exit(1, newRSAPublicKey(pemFile), 0)
       ELSE /\ phase' = "build"
            /\ UNCHANGED exit
    /\ UNCHANGED <<endpoints, pemFile, bi, buildRoutes, routes, transports, handles, req>>
    /\ UNCHANGED cbVars
    /\ UNCHANGED poolVars

\* a newProxyStageHandler that makes a new handle for every endpoint and
\* stores it under the transport name
proxyStageForAlwaysNew(ep) ==
    [transports |-> [n \in DOMAIN transports \cup {transNameOf(ep)} |->
                        IF n = transNameOf(ep) THEN Len(handles) + 1 ELSE transports[n]],
     handles |-> Append(handles, [name |-> ep.Name,
                                  cb |-> newCircuitBreaker(cbConfig, now)]),
     sh |-> [kind |-> "proxy", handle |-> Len(handles) + 1, Next |-> <<>>]]

\* Dispatcher.newProxyStageHandler after url.Parse: the transports map, the
\* handles and the proxy stage
proxyStageFor(ep) ==
    LET transName == transNameOf(ep) IN
    IF transName \in DOMAIN transports
    THEN [transports |-> transports, handles |-> handles,
          sh |-> [kind |-> "proxy", handle |-> transports[transName], Next |-> <<>>]]
    ELSE [transports |-> (transName :> (Len(handles) + 1)) @@ transports,
          handles |-> Append(handles, [name |-> ep.Name,
                                       cb |-> newCircuitBreaker(cbConfig, now)]),
          sh |-> [kind |-> "proxy", handle |-> Len(handles) + 1, Next |-> <<>>]]

\* one iteration of the loop of Dispatcher.configureRoutes, called by
\* DispatcherBuilder.Build, which drops the error configureRoutes returns;
\* the last iteration is followed by d.routes = routes
ConfigureRoute ==
    /\ phase = "build"
    /\ bi <= Len(endpoints)
    /\ LET ep == endpoints[bi] IN
       IF ~UrlParses(ep.URL)
       THEN /\ phase' = "serving"
            /\ UNCHANGED <<bi, buildRoutes, routes, transports, handles>>
       ELSE LET p  == proxyStageFor(ep)
                sh == IF ep.Authenticate
                      THEN [kind |-> "auth", handle |-> 0, Next |-> <<p.sh>>]
                      ELSE p.sh
                rs == (routeKeyOf(ep) :> [Endpoint |-> ep, StageHandler |-> sh])
                          @@ buildRoutes
            IN /\ transports' = p.transports
               /\ handles' = p.handles
               /\ buildRoutes' = rs
               /\ bi' = bi + 1
               /\ IF bi = Len(endpoints)
                  THEN routes' = rs /\ phase' = "serving"
                  ELSE UNCHANGED <<routes, phase>>
    /\ UNCHANGED <<endpoints, pemFile, exit, req>>
    /\ UNCHANGED cbVars
    /\ UNCHANGED poolVars

\* the key a variant of Dispatch would take: the first non-empty segment
lookupKeyFirstNonEmpty(pathSgmts) ==
    LET idx == {i \in 1..Len(pathSgmts) : pathSgmts[i] # ""} IN
    IF idx = {} THEN ""
    ELSE pathSgmts[CHOOSE i \in idx : \A j \in idx : i <= j]

\* the key Dispatch looks up: pathSgmts[1], Go's second element
lookupKey(pathSgmts) == pathSgmts[2]

\* Dispatcher.Dispatch up to the first stage: split the path, look the
\* route up; no route: 404; fewer than two segments: pathSgmts[1] panics
Dispatch ==
    /\ phase = "serving"
    /\ req.pc \in {"idle", "done", "panicked"}
    /\ ncalls < MaxDispatches
    /\ \E path \in Paths, hdr \in AuthHeaders :
         LET pathSgmts == Split(path)
             r0 == [IdleReq EXCEPT !.path = path, !.hdr = hdr]
         IN IF Len(pathSgmts) < 2
            THEN req' = [r0 EXCEPT !.pc = "panicked"]
            ELSE IF lookupKey(pathSgmts) \in DOMAIN routes
                 THEN req' = [r0 EXCEPT !.pc = "stage", !.route = lookupKey(pathSgmts),
                                        !.sh = <<routes[lookupKey(pathSgmts)].StageHandler>>]
                 ELSE req' = [r0 EXCEPT !.pc = "done", !.w = sendError(r0.w, NotFound)]
    /\ UNCHANGED <<endpoints, pemFile, exit, phase, bi, buildRoutes, routes, transports, handles>>
    /\ UNCHANGED cbVars
    /\ UNCHANGED poolVars

\* a loop that goes on to sh = matchRoute.StageHandler.Next whatever the
\* stage returned
afterStageNoBreak(r, ret) ==
    LET next == routes[r.route].StageHandler.Next IN
    IF next = <<>> THEN [r EXCEPT !.pc = "done", !.sh = <<>>]
    ELSE [r EXCEPT !.pc = "stage", !.sh = next]

\* the loop of Dispatch after a stage returned: break on false, else
\* sh = matchRoute.StageHandler.Next; the loop ends when sh is nil
afterStage(r, ret) ==
    IF ~ret THEN [r EXCEPT !.pc = "done", !.sh = <<>>]
    ELSE LET next == routes[r.route].StageHandler.Next IN
         IF next = <<>> THEN [r EXCEPT !.pc = "done", !.sh = <<>>]
         ELSE [r EXCEPT !.pc = "stage", !.sh = next]

\* the authentication stage's ExecHandler runs
ExecAuthStage ==
    /\ req.pc = "stage"
    /\ req.sh[1].kind = "auth"
    /\ LET a == authExec(req.w, req.hdr) IN
       req' = afterStage([req EXCEPT !.w = a.w,
                                     !.trace = Append(@, [kind |-> "auth", ret |-> a.ret])],
                         a.ret)
    /\ UNCHANGED <<endpoints, pemFile, exit, phase, bi, buildRoutes, routes, transports, handles>>
    /\ UNCHANGED cbVars
    /\ UNCHANGED poolVars

\* the proxy stage's ExecHandler runs: routeProxy.ServeHTTP calls RoundTrip
\* on the route's Transport Handle; a call the breaker rejects is answered
\* by the reverse proxy at once, and the stage returns false
ExecProxyStage ==
    /\ req.pc = "stage"
    /\ req.sh[1].kind = "proxy"
    /\ ncalls' = ncalls + 1
    /\ LET h  == req.sh[1].handle
           r1 == [req EXCEPT !.trace = Append(@, [kind |-> "proxy", ret |-> FALSE])]
       IN IF handles[h].cb = NoBreaker
          THEN /\ req' = [r1 EXCEPT !.pc = "backend", !.backend = TRUE]
               /\ UNCHANGED handles
          ELSE LET br == beforeRequest(handles[h].cb, now) IN
               /\ handles' = [handles EXCEPT ![h].cb = br.cb]
               /\ IF br.err = ""
                  THEN req' = [r1 EXCEPT !.pc = "backend", !.backend = TRUE,
                                         !.generation = br.generation]
                  ELSE req' = afterStage(
                                [r1 EXCEPT !.w = proxyWrite(@, [resp |-> 0, err |-> br.err])],
                                FALSE)
    /\ UNCHANGED <<endpoints, pemFile, exit, phase, bi, buildRoutes, routes, transports>>
    /\ UNCHANGED <<cbConfig, cb, now, rt, lastRt, openedAt, streak, trials>>
    /\ UNCHANGED poolVars

\* the backend answers: RoundTrip returns through the breaker, the reverse
\* proxy writes the response, and the proxy stage returns false
BackendReturn ==
    /\ req.pc = "backend"
    /\ \E o \in BackendOutcomes :
         LET h == req.sh[1].handle IN
         IF handles[h].cb = NoBreaker
         THEN /\ req' = afterStage([req EXCEPT !.w = proxyWrite(@, o), !.out = o], FALSE)
              /\ UNCHANGED handles
         ELSE LET res == cbClosure(o) IN
              /\ handles' = [handles EXCEPT
                               ![h].cb = afterRequest(@, req.generation, res.err = "", now)]
              /\ req' = afterStage([req EXCEPT !.w = proxyWrite(@, res), !.out = o], FALSE)
    /\ UNCHANGED <<endpoints, pemFile, exit, phase, bi, buildRoutes, routes, transports>>
    /\ UNCHANGED cbVars
    /\ UNCHANGED poolVars

\* the process ends while serving: the objects of the process are gone
ProcessEnds(code, err) ==
    /\ phase = "serving"
    /\ req.pc \in {"idle", "done", "panicked"}
    /\ phase' = "exit"
    /\ exit' = [Exit(code, err, 0) EXCEPT !.served = TRUE]
    /\ req' = IdleReq
    /\ routes' = EmptyMap
    /\ buildRoutes' = EmptyMap
    /\ transports' = EmptyMap
    /\ handles' = <<>>
    /\ ncalls' = 0
    /\ UNCHANGED <<endpoints, pemFile, bi>>
    /\ UNCHANGED <<cbConfig, cb, now, rt, lastRt, openedAt, streak, trials>>
    /\ UNCHANGED poolVars

\* GwServer.Run: SIGINT or SIGTERM arrives, Shutdown returns nil with no
\* request in flight, runServer returns and main calls os.Exit(0)
Shutdown == ProcessEnds(0, "")

\* GwServer.Run: ListenAndServe fails, Run returns the error and runServer
\* calls os.Exit(1)
ServerError == ProcessEnds(1, "listen and serve failed")

NextGw ==
    \/ Parse
    \/ RunServer
    \/ Shutdown
    \/ ServerError
    \/ ConfigureRoute
    \/ Dispatch
    \/ ExecAuthStage
    \/ ExecProxyStage
    \/ BackendReturn

\* the gateway alone
InitGwOnly == InitGw /\ PoolOff

SpecGw == InitGwOnly /\ [][NextGw]_vars

(***************************************************************************)
(* The authentication stage alone: the ExecHandler built by                *)
(* newAuthenticatingProxyStageHandler, statement by statement, around a    *)
(* d.authHandler that is any function of type auth.AuthHandler.            *)
(***************************************************************************)

\* ok, httpErr := d.authHandler(r)
CallAuthHandler ==
    /\ phase = "off"
    /\ req.pc = "idle"
    /\ \E a \in AuthHandlerReturns :
         req' = [req EXCEPT !.pc = IF a.ok THEN "returning" ELSE "failed", !.ah = a]
    /\ UNCHANGED <<endpoints, pemFile, exit, phase, bi, buildRoutes, routes, transports, handles>>
    /\ UNCHANGED cbVars
    /\ UNCHANGED poolVars

\* !ok: w.WriteHeader(httpErr.Code) when it is not 0, or w.WriteHeader(403)
StageWriteHeader ==
    /\ phase = "off"
    /\ req.pc = "failed"
    /\ req' = [req EXCEPT !.pc = "headerDone", !.w = failHeader(@, req.ah.httpErr)]
    /\ UNCHANGED <<endpoints, pemFile, exit, phase, bi, buildRoutes, routes, transports, handles>>
    /\ UNCHANGED cbVars
    /\ UNCHANGED poolVars

\* w.Write(httpErr.Message) when it is not empty, or w.Write("forbidden")
StageWriteBody ==
    /\ phase = "off"
    /\ req.pc = "headerDone"
    /\ req' = [req EXCEPT !.pc = "returning", !.w = failBody(@, req.ah.httpErr)]
    /\ UNCHANGED <<endpoints, pemFile, exit, phase, bi, buildRoutes, routes, transports, handles>>
    /\ UNCHANGED cbVars
    /\ UNCHANGED poolVars

\* the ExecHandler returns ok; on false Dispatch breaks out of its loop and
\* returns, and net/http completes the response
StageReturns ==
    /\ phase = "off"
    /\ req.pc = "returning"
    /\ req' = [req EXCEPT
                 !.pc = IF req.ah.ok THEN "next" ELSE "done",
                 !.trace = Append(@, [kind |-> "auth", ret |-> req.ah.ok]),
                 !.w = IF req.ah.ok THEN @ ELSE finishResponse(@)]
    /\ UNCHANGED <<endpoints, pemFile, exit, phase, bi, buildRoutes, routes, transports, handles>>
    /\ UNCHANGED cbVars
    /\ UNCHANGED poolVars

NextAuthStage ==
    \/ CallAuthHandler
    \/ StageWriteHeader
    \/ StageWriteBody
    \/ StageReturns

InitAuthStageOnly == PoolOff /\ CbOff /\ GwOff

SpecAuthStage == InitAuthStageOnly /\ [][NextAuthStage]_vars

(***************************************************************************)
(* Claims about the worker pool                                            *)
(***************************************************************************)

WellFormed(ret) ==
    /\ ret # NoRet
    /\ ret.AuthResult.Success \in BOOLEAN
    /\ ret.AuthResult.Success <=> (ret.AuthError = "")
    /\ ret.AuthResult.Success <=> (ret.AuthResult.Artifact # "nil")

BeginStep == ncalls' = ncalls + 1
Admitted  == \E r \in CallIds : rt[r].pc = "idle" /\ rt'[r].pc = "backend"

\* C5: with failuresToOpen = F, a Closed breaker goes to Open exactly when
\* the F-th consecutive backend failure completes through its handle: not
\* before the F-th and not later.
C5_OpensAtFailuresToOpen ==
    [][ (cb # NoBreaker /\ cb.state = "closed")
          => ((cb'.state = "open") <=> (streak' = cbConfig.FailuresToOpen)) ]_vars

\* C6: while the breaker is Open and halfOpenAfterMs has not elapsed since it
\* entered Open, a RoundTrip returns an error without calling the underlying
\* transport; a RoundTrip made after halfOpenAfterMs has elapsed finds the
\* breaker HalfOpen.  (At the very instant the timer runs out the call is
\* still rejected: the breaker compares with expiry.Before(now).)
C6_OpenRejects ==
    [][ (cb # NoBreaker /\ cb.state = "open" /\ BeginStep)
          => /\ now < openedAt + cbConfig.HalfOpenAfterMs
                  => /\ ~Admitted
                     /\ rt' = rt
                     /\ ~lastRt'.reached
                     /\ lastRt'.out.resp = 0
                     /\ lastRt'.out.err # ""
                     /\ cb'.state = "open"
             /\ now > openedAt + cbConfig.HalfOpenAfterMs
                  => cb'.state = "half-open" ]_vars

\* a call was just rejected by the Open breaker before its timer ran out
C6_Witness ==
    /\ cb # NoBreaker
    /\ cb.state = "open"
    /\ now < openedAt + cbConfig.HalfOpenAfterMs
    /\ lastRt.seen = "open"
    /\ lastRt.out.err = "ErrOpenState"
    /\ ~lastRt.reached

\* C7: while the breaker is HalfOpen at most maxHalfOpenRequests calls are
\* admitted to the backend as trial calls; every further call is rejected.
C7_HalfOpenAdmitsAtMost ==
    (cb # NoBreaker /\ cb.state = "half-open")
        => trials <= cbConfig.MaxHalfOpenRequests

\* two trial calls were admitted and a third call has just been rejected
C7_Witness ==
    /\ cb # NoBreaker
    /\ cb.state = "half-open"
    /\ cbConfig.MaxHalfOpenRequests = 2
    /\ trials = 2
    /\ lastRt.seen = "half-open"
    /\ lastRt.out.err = "ErrTooManyRequests"

\* a trial call (admitted while HalfOpen) returns in this step
TrialEnds(r) ==
    /\ cb # NoBreaker
    /\ rt[r].pc = "backend"
    /\ rt[r].seen = "half-open"
    /\ rt'[r].pc = "idle"

\* C8 as claimed: for every maxHalfOpenRequests, a trial call that succeeds
\* puts the breaker in Closed with the failure counter at zero, and a trial
\* call that fails puts it back in Open and restarts the Open timer.
C8_TrialDecides ==
    [][ \A r \in CallIds : TrialEnds(r) =>
          IF lastRt'.out.err = ""
          THEN /\ cb'.state = "closed"
               /\ cb'.counts.ConsecutiveFailures = 0
               /\ cb'.counts.TotalFailures = 0
          ELSE /\ cb'.state = "open"
               /\ openedAt' = now
               /\ cb'.expiry = now + cbConfig.HalfOpenAfterMs ]_vars

\* C8 amended: a trial call that returns while the breaker is still in the
\* HalfOpen period that admitted it reopens the breaker and restarts the
\* Open timer when it fails; when it succeeds it closes the breaker, with
\* the failure counter at zero, only as the maxHalfOpenRequests-th
\* consecutive successful trial of the period, and otherwise leaves it
\* HalfOpen.  A trial call that returns after that period has ended is not
\* counted.
C8_TrialDecidesInPeriod ==
    [][ \A r \in CallIds : TrialEnds(r) =>
          IF cb.state = "half-open" /\ cb.generation = rt[r].generation
          THEN IF lastRt'.out.err # ""
               THEN /\ cb'.state = "open"
                    /\ openedAt' = now
                    /\ cb'.expiry = now + cbConfig.HalfOpenAfterMs
               ELSE IF cb.counts.ConsecutiveSuccesses + 1 >= cbConfig.MaxHalfOpenRequests
                    THEN /\ cb'.state = "closed"
                         /\ cb'.counts.ConsecutiveFailures = 0
                         /\ cb'.counts.TotalFailures = 0
                    ELSE /\ cb'.state = "half-open"
                         /\ cb'.generation = cb.generation
          ELSE cb' = currentState(cb, now) ]_vars

\* with maxHalfOpenRequests = 2 the first trial succeeded and the breaker is
\* still HalfOpen
C8_Witness ==
    /\ cb # NoBreaker
    /\ cbConfig.MaxHalfOpenRequests = 2
    /\ cb.state = "half-open"
    /\ cb.counts.ConsecutiveSuccesses = 1
    /\ lastRt.seen = "half-open"
    /\ lastRt.reached
    /\ lastRt.out.err = ""


(***************************************************************************)
(* Claims about the Dispatcher                                             *)
(***************************************************************************)

\* the Dispatcher was built from the whole validated endpoint list
Built == phase = "serving" /\ bi > Len(endpoints)

\* the request matched a route of an endpoint that requires authentication
OnAuthEndpoint ==
    /\ Built
    /\ req.route # ""
    /\ routes[req.route].Endpoint.Authenticate

\* a path "/segment..." with a non-empty first segment
WellFormedPath(path) ==
    /\ Len(Split(path)) >= 2
    /\ Split(path)[1] = ""
    /\ Split(path)[2] # ""

\* an Authorization value "<scheme> <token>" that is a Bearer token signed
\* by the configured key, and one that is not
VerifiedHeader(hdr) ==
    /\ hdr # <<>>
    /\ Len(hdr[1]) = 2
    /\ ToLower(hdr[1][1]) = "bearer"
    /\ hdr[1][2] \in SignedByKey

RefusedHeader(hdr) ==
    /\ hdr # <<>>
    /\ Len(hdr[1]) = 2
    /\ (ToLower(hdr[1][1]) # "bearer" \/ hdr[1][2] \notin SignedByKey)

AuthReturned(b) == [kind |-> "auth", ret |-> b]

\* C3: a request whose first path segment is the route key (Endpoint.Key)
\* of a configured endpoint has that endpoint's stage chain executed, also
\* when the endpoint's name differs from its key; a request whose first
\* segment is no configured key is answered 404 and no chain is executed.
C3_RoutesByKey ==
    (Built /\ req.pc = "done" /\ WellFormedPath(req.path)) =>
        LET seg  == Split(req.path)[2]
            hits == {i \in 1..Len(endpoints) : endpoints[i].Key = seg}
        IN IF hits # {}
           THEN /\ req.route # ""
                /\ routes[req.route].Endpoint.Key = seg
                /\ req.trace # <<>>
           ELSE /\ req.w.status = 404
                /\ req.trace = <<>>

\* C4: on an endpoint that requires authentication the authentication
\* stage runs first, the proxy stage runs only second and only after the
\* authentication stage returned true, and a request whose token is invalid
\* never reaches the backend.
C4_AuthBeforeProxy ==
    OnAuthEndpoint =>
        /\ \A i \in 1..Len(req.trace) :
              IF i = 1 THEN req.trace[i].kind = "auth"
              ELSE /\ i = 2
                   /\ req.trace[i].kind = "proxy"
                   /\ req.trace[1] = AuthReturned(TRUE)
        /\ req.backend => (Len(req.trace) = 2 /\ req.trace[1] = AuthReturned(TRUE))
        /\ RefusedHeader(req.hdr) => ~req.backend

C4_Witness ==
    /\ OnAuthEndpoint
    /\ req.pc = "backend"
    /\ VerifiedHeader(req.hdr)
    /\ Len(req.trace) = 2

\* the proxy stage a compiled chain ends with
proxyStageOf(sh) == IF sh.kind = "auth" THEN sh.Next[1] ELSE sh

\* C9: when endpoint A declares sharedTransport equal to endpoint B's name,
\* the proxy stages of A and of B use the same Transport Handle, in either
\* order of A and B and also when B itself declares a shared transport.
C9_SharedHandle ==
    Built =>
        \A a, b \in 1..Len(endpoints) :
            endpoints[a].SharedTransport = endpoints[b].Name =>
                proxyStageOf(routes[endpoints[a].Name].StageHandler).handle
                    = proxyStageOf(routes[endpoints[b].Name].StageHandler).handle

\* C10: on an endpoint with authenticate=true, once the authentication
\* stage has run: no Authorization header: status 401; a header that is
\* present but is not a Bearer token signed by the configured key: status
\* 403 with body "forbidden"; a Bearer token signed by the configured key:
\* the stage has returned true, has written nothing, and the proxy stage is
\* next.
C10_AuthResponses ==
    (OnAuthEndpoint /\ req.trace # <<>>) =>
        /\ req.hdr = <<>> =>
              /\ req.trace = <<AuthReturned(FALSE)>>
              /\ req.pc = "done"
              /\ req.w.status = 401
        /\ RefusedHeader(req.hdr) =>
              /\ req.trace = <<AuthReturned(FALSE)>>
              /\ req.pc = "done"
              /\ req.w = [status |-> 403, body |-> "forbidden"]
        /\ VerifiedHeader(req.hdr) =>
              /\ req.trace[1] = AuthReturned(TRUE)
              /\ Len(req.trace) = 1 =>
                    /\ req.w = NewWriter
                    /\ req.pc = "stage"
                    /\ req.sh[1].kind = "proxy"

C10_Witness ==
    /\ OnAuthEndpoint
    /\ req.pc = "done"
    /\ req.hdr = <<BasicXyz>>
    /\ req.w = [status |-> 403, body |-> "forbidden"]

(***************************************************************************)
(* Claims about the verifier                                               *)
(***************************************************************************)

\* a credential "<scheme> <token>" whose scheme is Bearer in any case
BearerForm(cred) == Len(cred) = 2 /\ ToLower(cred[1]) = "bearer"

\* C11: Authenticate returns Success=true only for a credential of the form
\* "Bearer <token>" whose token verifies against the configured key; for a
\* credential not of that form (another scheme, or a token without scheme)
\* it returns Success=false and a non-nil error.
C11_OnlyBearerSucceeds ==
    \A c \in CallerIds :
        authRet[c] # NoRet =>
            /\ authRet[c].AuthResult.Success =>
                  (BearerForm(ctoken[c]) /\ ctoken[c][2] \in SignedByKey)
            /\ ~BearerForm(ctoken[c]) =>
                  (~authRet[c].AuthResult.Success /\ authRet[c].AuthError # "")

(***************************************************************************)
(* Claims about path handling in Dispatch                                  *)
(***************************************************************************)

\* Dispatch has been entered for the request in req
Dispatched == Built /\ req.pc \in {"stage", "backend", "done", "panicked"}

\* the path has no segment: every piece between its slashes is empty
NoSegments(path) == \A i \in 1..Len(Split(path)) : Split(path)[i] = ""

\* C12: for a request whose path has no segments (the empty path, or "/")
\* Dispatch writes a 404 response and returns normally; no stage is
\* executed and the request-handling task is not aborted.
C12_NoSegmentsNotFound ==
    (Dispatched /\ NoSegments(req.path)) =>
        /\ req.pc = "done"
        /\ req.w.status = 404
        /\ req.trace = <<>>

\* C13 as stated: the lookup key is the first non-empty segment of the
\* path, so //<key>/x is dispatched to the route of <key> as /<key>/x is.
C13_FirstNonEmptyKey ==
    (Dispatched /\ ~NoSegments(req.path)) =>
        (lookupKeyFirstNonEmpty(Split(req.path)) \in DOMAIN routes
            => req.route = lookupKeyFirstNonEmpty(Split(req.path)))

\* C13: the lookup key is the text between the first and the second slash
\* of the path: /<key>/x is dispatched to the route stored under <key>, and
\* a path whose text there is no stored key, as in //<key>/x where it is
\* empty, is answered 404 with no stage executed.
C13_KeyIsSecondPiece ==
    (Dispatched /\ Len(Split(req.path)) >= 2) =>
        IF Split(req.path)[2] \in DOMAIN routes
        THEN /\ req.route = Split(req.path)[2]
             /\ req.pc # "panicked"
             /\ req.pc = "done" => req.trace # <<>>
        ELSE /\ req.pc = "done"
             /\ req.route = ""
             /\ req.w = [status |-> 404, body |-> "not found: 404"]
             /\ req.trace = <<>>

\* //service1/x was answered 404 although a route is stored under service1
C13_Witness ==
    /\ Dispatched
    /\ req.path = <<"/", "/", "service1", "/", "x">>
    /\ "service1" \in DOMAIN routes
    /\ req.pc = "done"
    /\ req.w.status = 404

(***************************************************************************)
(* Claims about startup, configuration and the proxied response            *)
(***************************************************************************)

\* the process ended before the server was started
StartupFailed == exit.exited /\ ~exit.served

\* C14: without a circuit-breaker section configuration loading and the
\* construction of the dispatcher complete, every Transport Handle has no
\* breaker, and no call through a handle is rejected locally: every proxy
\* stage that ran has reached the backend.
C14_NoBreakerSectionPassesThrough ==
    (cbConfig = NoCbConfig /\ validateEndpoints(endpoints).ok) =>
        /\ ~(StartupFailed /\ phase = "exit" /\ exit.code = PanicExitCode)
        /\ \A h \in 1..Len(handles) : handles[h].cb = NoBreaker
        /\ (req.pc = "done" /\ \E i \in 1..Len(req.trace) : req.trace[i].kind = "proxy")
              => req.backend

\* endpoint i repeats an earlier name or key, or names itself as its shared
\* transport; and: it also may lack a name, a key or a url
Offends(eps, i) ==
    \/ \E j \in 1..(i - 1) : eps[j].Name = eps[i].Name
    \/ \E j \in 1..(i - 1) : eps[j].Key = eps[i].Key
    \/ (eps[i].SharedTransport # "" /\ eps[i].SharedTransport = eps[i].Name)

Flawed(eps, i) ==
    \/ Offends(eps, i)
    \/ eps[i].Name = ""
    \/ eps[i].Key = ""
    \/ eps[i].URL = ""

\* the first index in a non-empty set of indices
First(S) == CHOOSE i \in S : \A j \in S : i <= j

\* every endpoint has its route in the route table
RouteForEvery ==
    \A i \in 1..Len(endpoints) :
        /\ endpoints[i].Name \in DOMAIN routes
        /\ routes[endpoints[i].Name].Endpoint = endpoints[i]

\* nothing but the endpoint list can make startup fail
RestIsFine == cbConfig # NoCbConfig /\ pemFile = GoodPem /\ endpoints # <<>>

\* C15 as stated: every list with unique names, unique keys and no endpoint
\* sharing with itself is validated and compiled into a route for every
\* endpoint; every other list fails with an error about the offending
\* endpoint and no route table.
C15_ValidListsBuild ==
    RestIsFine =>
        LET bad == {i \in 1..Len(endpoints) : Offends(endpoints, i)} IN
        IF bad = {}
        THEN /\ ~StartupFailed
             /\ phase = "serving" => RouteForEvery
        ELSE /\ phase \in {"parse", "exit"}
             /\ routes = EmptyMap
             /\ exit.exited => (exit.code = 1 /\ exit.at = First(bad))

\* C15: every list with unique names, unique keys, no endpoint sharing with
\* itself, and a name, a key and a parsable url on every endpoint, is
\* validated and compiled into a route for every endpoint; every list that
\* breaks a uniqueness, self-reference or required-field rule fails with an
\* error about the first such endpoint, exit code 1 and no route table.
C15_WellFormedListsBuild ==
    RestIsFine =>
        LET bad == {i \in 1..Len(endpoints) : Flawed(endpoints, i)} IN
        IF bad = {}
        THEN (\A i \in 1..Len(endpoints) : UrlParses(endpoints[i].URL)) =>
                /\ ~StartupFailed
                /\ phase = "serving" => RouteForEvery
        ELSE /\ phase \in {"parse", "exit"}
             /\ routes = EmptyMap
             /\ exit.exited => (StartupFailed /\ exit.code = 1 /\ exit.at = First(bad))

\* a list of three endpoints has been compiled into three routes
C15_Witness ==
    /\ RestIsFine
    /\ phase = "serving"
    /\ Len(endpoints) = 3
    /\ RouteForEvery
    /\ Cardinality(DOMAIN routes) = 3

\* C16: when the call of a request reached the backend and the backend
\* returned a response, the client receives exactly that status and body,
\* also for a status in 500..599 with a breaker on the Transport Handle.
C16_BackendResponseUnmodified ==
    (Built /\ req.pc = "done" /\ req.backend /\ req.out.err = "") =>
        req.w = [status |-> req.out.resp, body |-> "backend body"]

\* a startup failure named by the claim: invalid configuration, a missing
\* or invalid public key, no endpoints, or a route that cannot be compiled
StartupFailure ==
    \/ \E i \in 1..Len(endpoints) : Flawed(endpoints, i)
    \/ pemFile # GoodPem
    \/ endpoints = <<>>
    \/ \E i \in 1..Len(endpoints) : ~UrlParses(endpoints[i].URL)

\* C17: every startup failure makes the process exit with code 1 before a
\* request is served; a fatal server error exits with 1; exit code 0 is
\* produced only after a clean shutdown.
C17_ExitCodes ==
    cbConfig # NoCbConfig =>
        /\ StartupFailure =>
              /\ phase # "serving"
              /\ exit.exited => (exit.code = 1 /\ ~exit.served)
        /\ (exit.exited /\ exit.served /\ exit.err # "") => exit.code = 1
        /\ (exit.exited /\ exit.code = 0) => (exit.served /\ exit.err = "")

(***************************************************************************)
(* Claims about the stage loop                                             *)
(***************************************************************************)

\* C20: in every request each stage of the chain is executed at most once,
\* the proxy stage is the last stage executed, and when Dispatch has
\* returned no stage is left to execute.
C20_EachStageOnce ==
    Dispatched =>
        /\ \A i, j \in 1..Len(req.trace) :
              req.trace[i].kind = req.trace[j].kind => i = j
        /\ \A i \in 1..Len(req.trace) :
              req.trace[i].kind = "proxy" => i = Len(req.trace)
        /\ req.pc = "backend" => req.sh[1].kind = "proxy"
        /\ req.pc = "done" => req.sh = <<>>

\* an authenticating-proxy chain has run to its end: both stages, once each
C20_Witness ==
    /\ OnAuthEndpoint
    /\ req.pc = "done"
    /\ Len(req.trace) = 2
    /\ req.out.err = ""
    /\ req.w.status = 200

(***************************************************************************)
(* Claims about job hand-off and the life of the workers                   *)
(***************************************************************************)

\* worker w's job channel is in the registration queue
InQueue(w) == \E i \in 1..Len(workerPool) : workerPool[i] = w

\* the workers that hold the job of caller c
HoldersOf(c) == {w \in WorkerIds : wjob[w].RespChan = c}

AllAvailable ==
    \A w \in WorkerIds : w <= numWorkers => (wpc[w] = "select" /\ InQueue(w))

C21_HaltedHasErrorStatus ==
    (req.pc = "done" /\ ~req.ah.ok /\ req.trace = <<AuthReturned(FALSE)>>) =>
        /\ req.w.status # 0
        /\ req.w.status = IF req.ah.httpErr # NoHttpErr
                          THEN req.ah.httpErr.Code ELSE 403
        /\ ~(req.w.status \in 200..299)

(***************************************************************************)
(* Claims about the failure counter of a Closed breaker                    *)
(***************************************************************************)

\* a call through the handle returns in this step while the breaker's
\* state is Closed
CallEndsClosed(r) ==
    /\ cb # NoBreaker
    /\ cb.state = "closed"
    /\ rt[r].pc = "backend"
    /\ rt'[r].pc = "idle"

\* the call began in the counting period the breaker is in, and that period
\* has not run out
InPeriod(r) ==
    /\ cb.generation = rt[r].generation
    /\ (cb.expiry = ZeroTime \/ ~(cb.expiry < now))

\* C22 as stated, for either counter of failures the breaker keeps: while
\* the breaker is and stays Closed, a completed call increments the failure
\* counter if the transport returned an error or a 5xx response, and leaves
\* it unchanged otherwise.
C22_FailureCounter ==
    [][ \A r \in CallIds : (CallEndsClosed(r) /\ cb'.state = "closed") =>
          IF lastRt'.out.err # ""
          THEN \/ cb'.counts.TotalFailures = cb.counts.TotalFailures + 1
               \/ cb'.counts.ConsecutiveFailures = cb.counts.ConsecutiveFailures + 1
          ELSE \/ cb'.counts.TotalFailures = cb.counts.TotalFailures
               \/ cb'.counts.ConsecutiveFailures = cb.counts.ConsecutiveFailures ]_vars

\* C22: while the breaker is Closed, a call that completes in the counting
\* period it began in adds one to the total and to the consecutive failures
\* when the transport returned an error or a 5xx response (and opens the
\* breaker, clearing the counters, when that is one failure too many); with
\* any other outcome it sets the consecutive failures to zero and leaves
\* the total unchanged.  A call that began in an earlier period, or that
\* completes after the period has run out, is not counted.
C22_FailureCounterInPeriod ==
    [][ \A r \in CallIds : CallEndsClosed(r) =>
          IF InPeriod(r)
          THEN IF lastRt'.out.err # ""
               THEN IF cb.counts.ConsecutiveFailures + 1 > DefaultTripAfterFailures
                    THEN /\ cb'.state = "open"
                         /\ cb'.counts = ZeroCounts
                    ELSE /\ cb'.state = "closed"
                         /\ cb'.counts.TotalFailures = cb.counts.TotalFailures + 1
                         /\ cb'.counts.ConsecutiveFailures
                               = cb.counts.ConsecutiveFailures + 1
               ELSE /\ cb'.state = "closed"
                    /\ cb'.counts.TotalFailures = cb.counts.TotalFailures
                    /\ cb'.counts.ConsecutiveFailures = 0
          ELSE /\ cb'.state = "closed"
               /\ cb'.counts = IF cb.expiry # ZeroTime /\ cb.expiry < now
                               THEN ZeroCounts ELSE cb.counts ]_vars

\* a success has just set the consecutive failures of a Closed breaker to
\* zero in a period that has counted failures
C22_Witness ==
    /\ cb # NoBreaker
    /\ cb.state = "closed"
    /\ lastRt.reached
    /\ lastRt.out.err = ""
    /\ cb.counts.TotalFailures >= 1
    /\ cb.counts.ConsecutiveFailures = 0
    /\ cb.counts.TotalSuccesses >= 1

(***************************************************************************)
(* Claims about the Transport Handles                                      *)
(***************************************************************************)

\* the transport name endpoint ep resolves to
ResolvesTo(ep) == IF ep.SharedTransport # "" THEN ep.SharedTransport ELSE ep.Name

\* the handles as created: their number and the names they were made with
Created(hs) == [h \in 1..Len(hs) |-> hs[h].name]

\* C23: a Transport Handle is created at most once per transport name, a
\* handle stored under a name is never replaced, every compiled endpoint
\* proxies through the handle stored under the name it resolves to, and
\* while requests are served the transports map and the route table do not
\* change.
C23_HandleOncePerName ==
    [][ phase' # "exit" =>
          /\ \A n \in DOMAIN transports :
                n \in DOMAIN transports' /\ transports'[n] = transports[n]
          /\ \A h \in 1..Len(handles) :
                h <= Len(handles') /\ Created(handles')[h] = Created(handles)[h]
          /\ Len(handles') = Cardinality(DOMAIN transports')
          /\ \A n, m \in DOMAIN transports' :
                transports'[n] = transports'[m] => n = m
          /\ \A n \in DOMAIN buildRoutes' :
                proxyStageOf(buildRoutes'[n].StageHandler).handle
                    = transports'[ResolvesTo(buildRoutes'[n].Endpoint)]
          /\ phase = "serving" => (transports' = transports /\ routes' = routes) ]_vars

\* two endpoints were compiled onto one handle and a request went through it
C23_Witness ==
    /\ Built
    /\ Len(endpoints) = 2
    /\ Len(handles) = 1
    /\ req.pc = "done"
    /\ req.backend

(***************************************************************************)
(* Claims about the channels of the pool                                   *)
(***************************************************************************)

=============================================================================
